---- MODULE Spec2Model ----
(***************************************************************************)
(* The two example applications of tui-realm-stdlib, examples/             *)
(* progress_bar.rs and examples/select.rs: the main loop                   *)
(*     while !model.quit { tick; if redraw { view; redraw = false } }      *)
(* with Model::update, the components' event handlers (Component::on) and  *)
(* the terminal set-up and tear-down around the loop.                      *)
(*                                                                         *)
(* The tuirealm library (Application, View, TerminalBridge, the event      *)
(* listener) is called but not defined by these files.  Its calls are      *)
(* modelled at the call sites by their documented effect: poll yields at   *)
(* most one event under PollStrategy::Once or fails, tick forwards the     *)
(* event to the focused component and folds the message through update,    *)
(* active moves the focus, every terminal call may fail.                   *)
(***************************************************************************)
EXTENDS Integers, Sequences, FiniteSets, TLC

VARIABLES
    example,    \* which program runs: "progress_bar" or "select"
    pc,         \* position of main
    quit,       \* Model.quit
    redraw,     \* Model.redraw
    terminal,   \* TerminalBridge: its creation, raw mode, alternate screen,
                \* calls made at exit
    mounted,    \* identifiers mounted in the application
    focus,      \* View's focused identifier, or NoFocus
    focusAttr,  \* per component: its Focus attribute
    value,      \* per gauge: Attribute::Value, as a numerator over PDen
    label,      \* per gauge: Attribute::Text
    tabOpen,    \* per select: its list of choices is open
    tickRes,    \* result of this iteration's app.tick: [ok, sz]
    ev,         \* event polled by this iteration's tick (NoEvent when none)
    msg,        \* message the focused component produced in this iteration
    updates,    \* calls of Model::update made by this iteration's tick
    drawRes,    \* result of the draw made by Model::view in this iteration
    frame,      \* regions Model::view laid out in this iteration, in order
    iter,       \* iterations of the loop entered so far (saturates at MaxIter)
    tabs,       \* Tab key events delivered so far, modulo 2
    closed      \* an AppClose message has been produced

vars == <<example, pc, quit, redraw, terminal, mounted, focus, focusAttr, value,
          label, tabOpen, tickRes, ev, msg, updates, drawRes, frame, iter, tabs,
          closed>>

----------------------------------------------------------------------------
(* Bounds of the model *)

\* Loaded payloads are the fractions k / 2^PBits, 0 <= k <= 2^PBits: they are
\* exact f64 values and so is their product with 100.0.
PBits == 3

\* The iteration counter saturates here.
MaxIter == 2

\* Fuel of the update chain `while msg.is_some()`.
MaxChain == 3

RECURSIVE Pow2(_)
Pow2(n) == IF n = 0 THEN 1 ELSE 2 * Pow2(n - 1)

PDen == Pow2(PBits)

Progress == 0 .. PDen

----------------------------------------------------------------------------
(* Types of the programs *)

Examples == {"progress_bar", "select"}

\* enum Id { GaugeAlfa, GaugeBeta } / enum Id { SelectAlfa, SelectBeta }
Alfa == "Alfa"
Beta == "Beta"
Id == {Alfa, Beta}
NoFocus == "NoFocus"

\* enum Msg { AppClose, GaugeAlfaBlur, GaugeBetaBlur, None }
AppClose == "AppClose"
AlfaBlur == "AlfaBlur"
BetaBlur == "BetaBlur"
MsgNone  == "Msg::None"
Msg == {AppClose, AlfaBlur, BetaBlur, MsgNone}
\* Option::<Msg>::None
Absent == "Absent"

\* Key codes the handlers tell apart, and one that none of them matches.
Keys == {"Tab", "Esc", "Down", "Up", "Enter", "Char"}

Keyboard(k) == [kind |-> "Keyboard", code |-> k, prog |-> 0]
\* enum UserEvent { Loaded(f64) }
Loaded(p)   == [kind |-> "User", code |-> "Loaded", prog |-> p]
NoEvent     == [kind |-> "None", code |-> "None", prog |-> 0]
\* A poll that fails (ListenerError)
PollErr     == [kind |-> "Err", code |-> "Err", prog |-> 0]

\* Result of app.tick
Ok(sz) == [ok |-> TRUE, sz |-> sz]
Err    == [ok |-> FALSE, sz |-> 0]

----------------------------------------------------------------------------
(* format!("{:02}%", (prog * 100.0) as usize) *)

DigitChar(d) ==
    CASE d = 0 -> "0" [] d = 1 -> "1" [] d = 2 -> "2" [] d = 3 -> "3"
      [] d = 4 -> "4" [] d = 5 -> "5" [] d = 6 -> "6" [] d = 7 -> "7"
      [] d = 8 -> "8" [] d = 9 -> "9"

\* Decimal digits of a natural number, without padding.
RECURSIVE Decimal(_)
Decimal(n) == IF n < 10 THEN DigitChar(n)
              ELSE Decimal(n \div 10) \o DigitChar(n % 10)

\* `(prog * 100.0) as usize` for prog = p / PDen >= 0: the cast truncates
\* toward zero.
PercentNoTruncBug(p) == ((p * 100) + PDen - 1) \div PDen
Percent(p) == (p * 100) \div PDen

\* `{:02}`: at least two digits, padded with zeros on the left.
Pad02(s) == IF Len(s) < 2 THEN "0" \o s ELSE s

FormatLabel(p) == Pad02(Decimal(Percent(p))) \o "%"

----------------------------------------------------------------------------
(* Components: Component::on *)

\* A gauge's properties the handlers write.
Gauge(v, l) == [value |-> v, label |-> l]

\* GaugeAlfa::default / GaugeBeta::default: .label("0%") ... .progress(0.0)
GaugeDefault == Gauge(0, "0%")

\* The Loaded arm shared by both gauges: the label is computed from prog, then
\* Attribute::Value and Attribute::Text are set.
GaugeLoaded(prog) == Gauge(prog, FormatLabel(prog))

\* impl Component for GaugeAlfa: on
GaugeAlfaOn(e, comp) ==
    CASE e.kind = "User" ->
            [msg |-> MsgNone, comp |-> GaugeLoaded(e.prog)]
      [] e.kind = "Keyboard" /\ e.code = "Tab" ->
            [msg |-> AlfaBlur, comp |-> comp]
      [] e.kind = "Keyboard" /\ e.code = "Esc" ->
            [msg |-> AppClose, comp |-> comp]
      [] OTHER ->
            [msg |-> MsgNone, comp |-> comp]

\* impl Component for GaugeBeta: on
GaugeBetaOn(e, comp) ==
    CASE e.kind = "User" ->
            [msg |-> MsgNone, comp |-> GaugeLoaded(e.prog)]
      [] e.kind = "Keyboard" /\ e.code = "Tab" ->
            [msg |-> BetaBlur, comp |-> comp]
      [] e.kind = "Keyboard" /\ e.code = "Esc" ->
            [msg |-> AppClose, comp |-> comp]
      [] OTHER ->
            [msg |-> MsgNone, comp |-> comp]

\* The Select widget, as far as these programs observe it: whether its list of
\* choices is open.  (The highlighted choice is not observed: view matches
\* State::One(_) with a wildcard.)
SelectWidget(open) == [open |-> open]

\* Select::default(): the list is closed.
SelectDefault == SelectWidget(FALSE)

\* Select::perform: Submit opens a closed list and closes an open one; Move
\* moves the highlight of an open list.
SelectPerform(comp, cmd) ==
    IF cmd = "Submit" THEN SelectWidget(~comp.open) ELSE comp

\* Select::state: State::One(selected) while the list is closed, State::None
\* while it is open.
SelectState(comp) == IF comp.open THEN "None" ELSE "One"

\* impl Component for SelectAlfa: on.  Down, Up and Enter perform a command on
\* the Select widget and, like every other event, end in Some(Msg::None).
SelectAlfaOnDropsEventBug(e, comp) ==
    CASE e.kind = "Keyboard" /\ e.code = "Down" ->
            [msg |-> MsgNone, comp |-> SelectPerform(comp, "Move")]
      [] e.kind = "Keyboard" /\ e.code = "Up" ->
            [msg |-> MsgNone, comp |-> SelectPerform(comp, "Move")]
      [] e.kind = "Keyboard" /\ e.code = "Enter" ->
            [msg |-> MsgNone, comp |-> SelectPerform(comp, "Submit")]
      [] e.kind = "Keyboard" /\ e.code = "Tab" ->
            [msg |-> AlfaBlur, comp |-> comp]
      [] e.kind = "Keyboard" /\ e.code = "Esc" ->
            [msg |-> AppClose, comp |-> comp]
      [] OTHER ->
            [msg |-> Absent, comp |-> comp]
SelectAlfaOn(e, comp) ==
    CASE e.kind = "Keyboard" /\ e.code = "Down" ->
            [msg |-> MsgNone, comp |-> SelectPerform(comp, "Move")]
      [] e.kind = "Keyboard" /\ e.code = "Up" ->
            [msg |-> MsgNone, comp |-> SelectPerform(comp, "Move")]
      [] e.kind = "Keyboard" /\ e.code = "Enter" ->
            [msg |-> MsgNone, comp |-> SelectPerform(comp, "Submit")]
      [] e.kind = "Keyboard" /\ e.code = "Tab" ->
            [msg |-> AlfaBlur, comp |-> comp]
      [] e.kind = "Keyboard" /\ e.code = "Esc" ->
            [msg |-> AppClose, comp |-> comp]
      [] OTHER ->
            [msg |-> MsgNone, comp |-> comp]

\* impl Component for SelectBeta: on
SelectBetaOn(e, comp) ==
    CASE e.kind = "Keyboard" /\ e.code = "Down" ->
            [msg |-> MsgNone, comp |-> SelectPerform(comp, "Move")]
      [] e.kind = "Keyboard" /\ e.code = "Up" ->
            [msg |-> MsgNone, comp |-> SelectPerform(comp, "Move")]
      [] e.kind = "Keyboard" /\ e.code = "Enter" ->
            [msg |-> MsgNone, comp |-> SelectPerform(comp, "Submit")]
      [] e.kind = "Keyboard" /\ e.code = "Tab" ->
            [msg |-> BetaBlur, comp |-> comp]
      [] e.kind = "Keyboard" /\ e.code = "Esc" ->
            [msg |-> AppClose, comp |-> comp]
      [] OTHER ->
            [msg |-> MsgNone, comp |-> comp]

\* The handler mounted under an identifier in each program; `comp` is that
\* component: a gauge in progress_bar, a select in select.
On(ex, id, e, comp) ==
    CASE ex = "progress_bar" /\ id = Alfa -> GaugeAlfaOn(e, comp)
      [] ex = "progress_bar" /\ id = Beta -> GaugeBetaOn(e, comp)
      [] ex = "select" /\ id = Alfa -> SelectAlfaOn(e, comp)
      [] ex = "select" /\ id = Beta -> SelectBetaOn(e, comp)

----------------------------------------------------------------------------
(* View: mount and active *)

View(m, f, fa) == [mounted |-> m, focus |-> f, focusAttr |-> fa]

\* app.mount(id, component, vec![]): fails when the identifier is mounted.
Mount(view, id) ==
    IF id \in view.mounted
    THEN [ok |-> FALSE, view |-> view]
    ELSE [ok |-> TRUE, view |-> [view EXCEPT !.mounted = @ \cup {id}]]

\* view.active(id): fails when the identifier is not mounted; otherwise the
\* component that had the focus loses it and `id` gets it.
ActiveKeepsOldFocusBug(view, id) ==
    IF id \notin view.mounted
    THEN [ok |-> FALSE, view |-> view]
    ELSE [ok |-> TRUE,
          view |-> [view EXCEPT !.focus = id, !.focusAttr[id] = TRUE]]
Active(view, id) ==
    IF id \notin view.mounted
    THEN [ok |-> FALSE, view |-> view]
    ELSE [ok |-> TRUE,
          view |-> [view EXCEPT
                      !.focus = id,
                      !.focusAttr = [i \in Id |-> i = id]]]

----------------------------------------------------------------------------
(* Model::update *)

\* update(&mut self, view, msg) -> Option<Msg>, on msg.unwrap_or(Msg::None).
\* `panic` is a failed assert!.
UpdateResult(q, view, ret, panic) ==
    [quit |-> q, view |-> view, ret |-> ret, panic |-> panic]

UpdateIgnoresCloseBug(q, view, m) ==
    LET mm == IF m = Absent THEN MsgNone ELSE m IN
    CASE mm = AppClose -> UpdateResult(q, view, Absent, FALSE)
      [] mm = AlfaBlur ->
            LET a == Active(view, Beta) IN UpdateResult(q, a.view, Absent, ~a.ok)
      [] mm = BetaBlur ->
            LET a == Active(view, Alfa) IN UpdateResult(q, a.view, Absent, ~a.ok)
      [] mm = MsgNone -> UpdateResult(q, view, Absent, FALSE)

UpdateFollowUpBug(q, view, m) ==
    LET mm == IF m = Absent THEN MsgNone ELSE m IN
    CASE mm = AppClose -> UpdateResult(TRUE, view, Absent, FALSE)
      [] mm = AlfaBlur ->
            LET a == Active(view, Beta) IN UpdateResult(q, a.view, MsgNone, ~a.ok)
      [] mm = BetaBlur ->
            LET a == Active(view, Alfa) IN UpdateResult(q, a.view, MsgNone, ~a.ok)
      [] mm = MsgNone -> UpdateResult(q, view, Absent, FALSE)

UpdateBlurSticksBug(q, view, m) ==
    LET mm == IF m = Absent THEN MsgNone ELSE m IN
    CASE mm = AppClose -> UpdateResult(TRUE, view, Absent, FALSE)
      [] mm = AlfaBlur ->
            LET a == Active(view, Beta) IN UpdateResult(q, a.view, Absent, ~a.ok)
      [] mm = BetaBlur ->
            LET a == Active(view, Beta) IN UpdateResult(q, a.view, Absent, ~a.ok)
      [] mm = MsgNone -> UpdateResult(q, view, Absent, FALSE)

Update(q, view, m) ==
    LET mm == IF m = Absent THEN MsgNone ELSE m IN
    CASE mm = AppClose -> UpdateResult(TRUE, view, Absent, FALSE)
      [] mm = AlfaBlur ->
            LET a == Active(view, Beta) IN UpdateResult(q, a.view, Absent, ~a.ok)
      [] mm = BetaBlur ->
            LET a == Active(view, Alfa) IN UpdateResult(q, a.view, Absent, ~a.ok)
      [] mm = MsgNone -> UpdateResult(q, view, Absent, FALSE)

----------------------------------------------------------------------------
(* app.tick(&mut model, PollStrategy::Once) *)

\* What one poll of the listeners can give: an error, no event, one key event
\* or, in progress_bar (whose Loader port polls Loaded), one user event.
PollOutcomes ==
    {PollErr}
      \cup {NoEvent}
      \cup {Keyboard(k) : k \in Keys}
      \cup (IF example = "progress_bar" THEN {Loaded(p) : p \in Progress} ELSE {})

\* State a tick works on and gives back.
TickState(q, view, comps, m, n, panic) ==
    [quit |-> q, view |-> view, comps |-> comps, msg |-> m, updates |-> n,
     panic |-> panic]

\* `while msg.is_some() { msg = model.update(view, msg) }`
RECURSIVE UpdateChain(_, _, _)
UpdateChain(st, m, fuel) ==
    IF m = Absent \/ fuel = 0 \/ st.panic
    THEN st
    ELSE LET r == Update(st.quit, st.view, m) IN
         UpdateChain([st EXCEPT !.quit = r.quit, !.view = r.view,
                                !.updates = @ + 1, !.panic = r.panic],
                     r.ret, fuel - 1)

\* The tick on a polled event: the focused component handles it, the message
\* it returns (if any) is folded through update; the result counts the
\* messages.
Dispatch(ex, st, e) ==
    IF st.view.focus = NoFocus
    THEN [res |-> Ok(0), st |-> st]
    ELSE LET id == st.view.focus
             h  == On(ex, id, e, st.comps[id])
             s1 == [st EXCEPT !.comps[id] = h.comp, !.msg = h.msg]
         IN [res |-> Ok(IF h.msg = Absent THEN 0 ELSE 1),
             st  |-> UpdateChain(s1, h.msg, MaxChain)]

\* A failed poll returns the error before anything is dispatched; no event
\* gives Ok(0).
AppTick(ex, st, o) ==
    CASE o = PollErr -> [res |-> Err, st |-> st]
      [] o = NoEvent -> [res |-> Ok(0), st |-> st]
      [] OTHER       -> Dispatch(ex, st, o)

----------------------------------------------------------------------------
(* Model::view *)

\* The three chunks of the vertical layout: the first component, the second,
\* and a last region of one row that nothing is drawn into.
Layout(alfaLen, betaLen) ==
    <<[widget |-> Alfa, height |-> alfaLen],
      [widget |-> Beta, height |-> betaLen],
      [widget |-> "none", height |-> 1]>>

\* progress_bar.rs, Model::view: Length(3), Length(3), Length(1).
GaugeView == Layout(3, 3)

\* select.rs, Model::view: a select whose state is State::One(_) gets 3 rows,
\* any other state 8.
SelectLen(comp) == IF SelectState(comp) = "One" THEN 3 ELSE 8

SelectViewFixedBug(alfa, beta) == Layout(3, 3)
SelectView(alfa, beta) == Layout(SelectLen(alfa), SelectLen(beta))

\* The regions the running program's view lays out.
ModelView(ex, open) ==
    IF ex = "progress_bar" THEN GaugeView
    ELSE SelectView(SelectWidget(open[Alfa]), SelectWidget(open[Beta]))

\* No view ran in this iteration.
NoFrame == <<>>

----------------------------------------------------------------------------
(* main *)

\* The terminal before main touches it; bridge is the outcome of
\* TerminalBridge::new; leave, disable and clear count the calls made at exit.
NoTerminal ==
    [bridge |-> "none", raw |-> FALSE, alt |-> FALSE,
     leave |-> 0, disable |-> 0, clear |-> 0]

\* Values that live for one iteration of the loop (the tick's result, the
\* polled event, the message, the draw's result) before the iteration sets them.
NoDraw == "none"

Init ==
    /\ example \in Examples
    /\ pc = "start"
    /\ quit = FALSE
    /\ redraw = FALSE
    /\ terminal = NoTerminal
    /\ mounted = {}
    /\ focus = NoFocus
    /\ focusAttr = [i \in Id |-> FALSE]
    /\ value = [i \in Id |-> GaugeDefault.value]
    /\ label = [i \in Id |-> GaugeDefault.label]
    /\ tabOpen = [i \in Id |-> SelectDefault.open]
    /\ tickRes = Err
    /\ ev = NoEvent
    /\ msg = Absent
    /\ updates = 0
    /\ drawRes = NoDraw
    /\ frame = NoFrame
    /\ iter = 0
    /\ tabs = 0
    /\ closed = FALSE

\* Model::default(): quit false, redraw true, and the terminal bridge, whose
\* creation may fail: expect then panics and main ends before its next line.
ModelDefaultNoRedrawBug ==
    /\ pc = "start"
    /\ \/ /\ terminal' = [terminal EXCEPT !.bridge = "ok"]
          /\ quit' = FALSE
          /\ redraw' = FALSE
          /\ pc' = "setup"
       \/ /\ terminal' = [terminal EXCEPT !.bridge = "err"]
          /\ pc' = "aborted"
          /\ UNCHANGED <<quit, redraw>>
    /\ UNCHANGED <<example, mounted, focus, focusAttr, value, label, tabOpen,
                   tickRes, ev, msg, updates, drawRes, frame, iter, tabs,
                   closed>>
ModelDefaultIgnoresFailureBug ==
    /\ pc = "start"
    /\ \/ /\ terminal' = [terminal EXCEPT !.bridge = "ok"]
          /\ quit' = FALSE
          /\ redraw' = TRUE
          /\ pc' = "setup"
       \/ /\ terminal' = [terminal EXCEPT !.bridge = "err"]
          /\ quit' = FALSE
          /\ redraw' = TRUE
          /\ pc' = "setup"
    /\ UNCHANGED <<example, mounted, focus, focusAttr, value, label, tabOpen,
                   tickRes, ev, msg, updates, drawRes, frame, iter, tabs,
                   closed>>
ModelDefault ==
    /\ pc = "start"
    /\ \/ /\ terminal' = [terminal EXCEPT !.bridge = "ok"]
          /\ quit' = FALSE
          /\ redraw' = TRUE
          /\ pc' = "setup"
       \/ /\ terminal' = [terminal EXCEPT !.bridge = "err"]
          /\ pc' = "aborted"
          /\ UNCHANGED <<quit, redraw>>
    /\ UNCHANGED <<example, mounted, focus, focusAttr, value, label, tabOpen,
                   tickRes, ev, msg, updates, drawRes, frame, iter, tabs,
                   closed>>

\* enable_raw_mode and enter_alternate_screen, results discarded.
EnterTerminal ==
    /\ pc = "setup"
    /\ \E rawOk \in BOOLEAN, altOk \in BOOLEAN :
          terminal' = [terminal EXCEPT !.raw = rawOk, !.alt = altOk]
    /\ pc' = "mount"
    /\ UNCHANGED <<example, quit, redraw, mounted, focus, focusAttr, value,
                   label, tabOpen, tickRes, ev, msg, updates, drawRes, frame,
                   iter, tabs, closed>>

\* Application::init, mount of both components, active on the first; each
\* under assert!.
MountComponentsSameIdBug ==
    /\ pc = "mount"
    /\ LET m1 == Mount(View(mounted, focus, focusAttr), Alfa)
           m2 == Mount(m1.view, Alfa)
           a  == Active(m2.view, Alfa)
       IN IF m1.ok /\ m2.ok /\ a.ok
          THEN /\ mounted' = a.view.mounted
               /\ focus' = a.view.focus
               /\ focusAttr' = a.view.focusAttr
               /\ pc' = "loop"
          ELSE /\ pc' = "aborted"
               /\ UNCHANGED <<mounted, focus, focusAttr>>
    /\ UNCHANGED <<example, quit, redraw, terminal, value, label, tabOpen,
                   tickRes, ev, msg, updates, drawRes, frame, iter, tabs,
                   closed>>
MountComponentsNoActiveBug ==
    /\ pc = "mount"
    /\ LET m1 == Mount(View(mounted, focus, focusAttr), Alfa)
           m2 == Mount(m1.view, Beta)
       IN IF m1.ok /\ m2.ok
          THEN /\ mounted' = m2.view.mounted
               /\ pc' = "loop"
          ELSE /\ pc' = "aborted"
               /\ UNCHANGED mounted
    /\ UNCHANGED <<example, quit, redraw, terminal, focus, focusAttr, value,
                   label, tabOpen, tickRes, ev, msg, updates, drawRes, frame,
                   iter, tabs, closed>>
MountComponents ==
    /\ pc = "mount"
    /\ LET m1 == Mount(View(mounted, focus, focusAttr), Alfa)
           m2 == Mount(m1.view, Beta)
           a  == Active(m2.view, Alfa)
       IN IF m1.ok /\ m2.ok /\ a.ok
          THEN /\ mounted' = a.view.mounted
               /\ focus' = a.view.focus
               /\ focusAttr' = a.view.focusAttr
               /\ pc' = "loop"
          ELSE /\ pc' = "aborted"
               /\ UNCHANGED <<mounted, focus, focusAttr>>
    /\ UNCHANGED <<example, quit, redraw, terminal, value, label, tabOpen,
                   tickRes, ev, msg, updates, drawRes, frame, iter, tabs,
                   closed>>

\* while !model.quit: the body is entered, or the loop is left.
LoopCheck ==
    /\ pc = "loop"
    /\ IF ~quit
       THEN /\ pc' = "tick"
            /\ iter' = IF iter < MaxIter THEN iter + 1 ELSE iter
            /\ drawRes' = NoDraw
            /\ frame' = NoFrame
       ELSE /\ pc' = "exit"
            /\ UNCHANGED <<iter, drawRes, frame>>
    /\ UNCHANGED <<example, quit, redraw, terminal, mounted, focus, focusAttr,
                   value, label, tabOpen, tickRes, ev, msg, updates, tabs,
                   closed>>

\* The components mounted in the running program.
Components ==
    [i \in Id |-> IF example = "progress_bar" THEN Gauge(value[i], label[i])
                  ELSE SelectWidget(tabOpen[i])]

\* app.tick(&mut model, PollStrategy::Once)
Tick ==
    /\ pc = "tick"
    /\ \E o \in PollOutcomes :
       \E t \in {AppTick(example,
                         TickState(quit, View(mounted, focus, focusAttr),
                                   Components, Absent, 0, FALSE),
                         o)} :
            /\ tickRes' = t.res
            /\ ev' = IF o = PollErr THEN NoEvent ELSE o
            /\ quit' = t.st.quit
            /\ mounted' = t.st.view.mounted
            /\ focus' = t.st.view.focus
            /\ focusAttr' = t.st.view.focusAttr
            /\ IF example = "progress_bar"
               THEN /\ value' = [i \in Id |-> t.st.comps[i].value]
                    /\ label' = [i \in Id |-> t.st.comps[i].label]
                    /\ UNCHANGED tabOpen
               ELSE /\ tabOpen' = [i \in Id |-> t.st.comps[i].open]
                    /\ UNCHANGED <<value, label>>
            /\ msg' = t.st.msg
            /\ updates' = t.st.updates
            /\ closed' = (closed \/ t.st.msg = AppClose)
            /\ tabs' = IF o = Keyboard("Tab") THEN (tabs + 1) % 2 ELSE tabs
            /\ pc' = IF t.st.panic THEN "aborted" ELSE "mark"
    /\ UNCHANGED <<example, redraw, terminal, drawRes, frame, iter>>

\* if let Ok(sz) = .. { if sz > 0 { model.redraw = true } }
MarkRedrawOnErrBug ==
    /\ pc = "mark"
    /\ redraw' = (redraw \/ ~tickRes.ok \/ tickRes.sz > 0)
    /\ pc' = "redraw"
    /\ UNCHANGED <<example, quit, terminal, mounted, focus, focusAttr, value,
                   label, tabOpen, tickRes, ev, msg, updates, drawRes, frame,
                   iter, tabs, closed>>
MarkRedrawAlwaysBug ==
    /\ pc = "mark"
    /\ redraw' = (redraw \/ tickRes.ok)
    /\ pc' = "redraw"
    /\ UNCHANGED <<example, quit, terminal, mounted, focus, focusAttr, value,
                   label, tabOpen, tickRes, ev, msg, updates, drawRes, frame,
                   iter, tabs, closed>>
MarkRedraw ==
    /\ pc = "mark"
    /\ redraw' = (redraw \/ (tickRes.ok /\ tickRes.sz > 0))
    /\ pc' = "redraw"
    /\ UNCHANGED <<example, quit, terminal, mounted, focus, focusAttr, value,
                   label, tabOpen, tickRes, ev, msg, updates, drawRes, frame,
                   iter, tabs, closed>>

\* Model::view: one draw of the frame, its result discarded (`let _ =`).
ViewOutcomes == {"ok", "err"}

\* if model.redraw { model.view(&mut app); model.redraw = false }
\* This ends the loop body: the tick's result, event and message are dropped.
RedrawSkippedOnQuitBug ==
    /\ pc = "redraw"
    /\ IF redraw /\ ~quit
       THEN /\ \E d \in ViewOutcomes : drawRes' = d
            /\ frame' = ModelView(example, tabOpen)
            /\ redraw' = FALSE
       ELSE UNCHANGED <<drawRes, frame, redraw>>
    /\ pc' = "loop"
    /\ tickRes' = Err /\ ev' = NoEvent /\ msg' = Absent /\ updates' = 0
    /\ UNCHANGED <<example, quit, terminal, mounted, focus, focusAttr, value,
                   label, tabOpen, iter, tabs, closed>>
Redraw ==
    /\ pc = "redraw"
    /\ IF redraw
       THEN /\ \E d \in ViewOutcomes : drawRes' = d
            /\ frame' = ModelView(example, tabOpen)
            /\ redraw' = FALSE
       ELSE UNCHANGED <<drawRes, frame, redraw>>
    /\ pc' = "loop"
    /\ tickRes' = Err /\ ev' = NoEvent /\ msg' = Absent /\ updates' = 0
    /\ UNCHANGED <<example, quit, terminal, mounted, focus, focusAttr, value,
                   label, tabOpen, iter, tabs, closed>>

\* leave_alternate_screen, disable_raw_mode, clear_screen: each called once,
\* its result discarded; a call that fails leaves the mode as it was.
TerminateStopsOnFailureBug ==
    /\ pc = "exit"
    /\ \E leaveOk \in BOOLEAN, disableOk \in BOOLEAN :
          terminal' = [bridge  |-> terminal.bridge,
                       raw     |-> IF leaveOk /\ disableOk THEN FALSE ELSE terminal.raw,
                       alt     |-> IF leaveOk THEN FALSE ELSE terminal.alt,
                       leave   |-> terminal.leave + 1,
                       disable |-> IF leaveOk THEN terminal.disable + 1
                                   ELSE terminal.disable,
                       clear   |-> IF leaveOk /\ disableOk THEN terminal.clear + 1
                                   ELSE terminal.clear]
    /\ pc' = "done"
    /\ UNCHANGED <<example, quit, redraw, mounted, focus, focusAttr, value,
                   label, tabOpen, tickRes, ev, msg, updates, drawRes, frame,
                   iter, tabs, closed>>
Terminate ==
    /\ pc = "exit"
    /\ \E leaveOk \in BOOLEAN, disableOk \in BOOLEAN :
          terminal' = [bridge  |-> terminal.bridge,
                       raw     |-> IF disableOk THEN FALSE ELSE terminal.raw,
                       alt     |-> IF leaveOk THEN FALSE ELSE terminal.alt,
                       leave   |-> terminal.leave + 1,
                       disable |-> terminal.disable + 1,
                       clear   |-> terminal.clear + 1]
    /\ pc' = "done"
    /\ UNCHANGED <<example, quit, redraw, mounted, focus, focusAttr, value,
                   label, tabOpen, tickRes, ev, msg, updates, drawRes, frame,
                   iter, tabs, closed>>

Next ==
    \/ ModelDefault
    \/ EnterTerminal
    \/ MountComponents
    \/ LoopCheck
    \/ Tick
    \/ MarkRedraw
    \/ Redraw
    \/ Terminate

Spec == Init /\ [][Next]_vars

\* The process runs: main is never stopped while it has a step to take.
FairSpec == Spec /\ WF_vars(Next)

----------------------------------------------------------------------------
(* Properties *)

\* Positions of main after app.active on the first component succeeded.
AfterActivation == {"loop", "tick", "mark", "redraw", "exit", "done"}

\* The loop `while !model.quit` has been left.
LoopExited == pc \in {"exit", "done"}

\* Model::view drew in the current iteration.
Rendered == drawRes # NoDraw

\* The tick of the current iteration processed at least one message.
Processed == tickRes.ok /\ tickRes.sz > 0

\* C1: the loop terminates if and only if a close message is produced and
\* passed to update: it is never left before an AppClose was produced, and
\* once one was produced the running program leaves the loop and ends.
C1_TerminatesIffClose ==
    /\ [](LoopExited => closed)
    /\ (closed ~> pc = "done")

C1_Witness == pc = "done" /\ closed /\ quit

\* C2 as stated: in every iteration a render occurs if and only if the tick
\* of that iteration processed at least one message.
C2_RenderIffProcessed ==
    [][pc = "redraw" => (Rendered' <=> Processed)]_vars

\* C2 amended: a render occurs in an iteration if and only if its tick
\* processed at least one message or it is the first iteration, whose render
\* is due to the redraw flag Model::default sets.
C2_RenderIffProcessedOrFirst ==
    [][pc = "redraw" => (Rendered' <=> (Processed \/ iter = 1))]_vars

\* A later iteration whose tick processed nothing ended without a render.
C2_Witness == pc = "loop" /\ iter = 2 /\ ~Rendered /\ ~quit

\* C3: after the initial activation exactly one mounted identifier is
\* focused, and a Blur message handled by update moves the focus to the other
\* mounted identifier.
C3_ExactlyOneFocused ==
    /\ [](pc \in AfterActivation =>
            /\ focus \in mounted
            /\ {i \in Id : focusAttr[i]} = {focus})
    /\ [][pc = "tick" /\ msg' \in {AlfaBlur, BetaBlur} =>
            /\ focus' \in mounted \ {focus}
            /\ Cardinality({i \in Id : focusAttr'[i]}) = 1]_vars

C3_Witness ==
    /\ pc = "mark" /\ msg = AlfaBlur
    /\ focus = Beta /\ focusAttr[Beta] /\ ~focusAttr[Alfa]

\* C4: a Tab delivered while one component is focused leaves the other one
\* focused and the first one not; after k Tab presses Alfa is focused if and
\* only if k is even.
C4_TabTogglesFocus ==
    /\ [][pc = "tick" /\ ev' = Keyboard("Tab") =>
            /\ focus' \in Id \ {focus}
            /\ focusAttr'[focus'] /\ ~focusAttr'[focus]]_vars
    /\ [](pc \in AfterActivation => (focus = Alfa <=> tabs = 0))

\* The second Tab brought the focus back to Alfa.
C4_Witness ==
    pc = "mark" /\ ev = Keyboard("Tab") /\ msg = BetaBlur /\ focus = Alfa /\ tabs = 0

\* C5: once quit is set no further tick is executed and the loop is left at
\* the next evaluation of its condition; leave_alternate_screen and
\* disable_raw_mode are called exactly once each at exit, whatever they return.
C5_ExitAndRestoreOnce ==
    /\ [](quit => pc # "tick")
    /\ [][pc = "loop" /\ quit => pc' = "exit"]_vars
    /\ [][pc = "exit" => pc' = "done"]_vars
    /\ [](pc = "done" => terminal.leave = 1 /\ terminal.disable = 1)
    /\ [](pc # "done" => terminal.leave = 0 /\ terminal.disable = 0)

\* The program ended with leave_alternate_screen failed (the alternate screen
\* is still on) and disable_raw_mode called all the same.
C5_Witness ==
    pc = "done" /\ quit /\ terminal.alt /\ terminal.leave = 1 /\ terminal.disable = 1

\* C6: a tick that returns Err leaves quit, the redraw flag and the focus as
\* they were, sets no redraw, and the loop goes on; a draw that fails does not
\* stop the loop either.
C6_ErrorsSwallowed ==
    /\ [][pc = "tick" /\ ~tickRes'.ok =>
            /\ UNCHANGED <<quit, redraw, focus, focusAttr>>
            /\ pc' = "mark"]_vars
    /\ [][pc = "mark" /\ ~tickRes.ok =>
            /\ UNCHANGED <<quit, redraw, focus, focusAttr>>
            /\ pc' = "redraw"]_vars
    /\ [][pc = "redraw" => pc' = "loop" /\ quit' = quit]_vars
    /\ [][pc = "loop" /\ ~quit => pc' = "tick"]_vars

\* A tick of a later iteration failed and no redraw is pending after it.
C6_Witness == pc = "redraw" /\ ~tickRes.ok /\ ~redraw /\ iter = 2

\* C7 as stated: the state is created with quit false and redraw true, and
\* afterwards either flag changes only in the step that runs update.
C7_FlagsOnlyByUpdate ==
    /\ [](pc = "setup" => ~quit /\ redraw)
    /\ [][pc # "start" /\ (quit' # quit \/ redraw' # redraw) => pc = "tick"]_vars

\* C7 amended: the state is created with quit false and redraw true; quit is
\* written only by update, on AppClose; the redraw flag is never written by
\* update but by the loop itself, after the tick and after the render.
C7_QuitByUpdateRedrawByLoop ==
    /\ [](pc = "setup" => ~quit /\ redraw)
    /\ [][pc # "start" /\ quit' # quit => pc = "tick" /\ msg' = AppClose]_vars
    /\ [][pc # "start" /\ redraw' # redraw => pc \in {"mark", "redraw"}]_vars

\* update has set quit and the loop has set the redraw flag.
C7_Witness == pc = "redraw" /\ quit /\ redraw /\ iter = 2

\* C8: quit is read only in the loop condition: the iteration whose tick
\* processed the close message goes on through its redraw step, and the loop
\* is left only from its condition, after that render.
C8_CloseIterationCompletes ==
    /\ [][pc = "mark" /\ quit => pc' = "redraw" /\ redraw']_vars
    /\ [][pc = "redraw" /\ quit => pc' = "loop" /\ Rendered']_vars
    /\ [][pc' = "exit" => pc = "loop" /\ quit]_vars
    /\ [](pc = "exit" => Rendered /\ ~redraw)

C8_Witness == pc = "exit" /\ closed /\ drawRes = "ok" /\ iter = 2

\* C9: a message a component produced is passed to update exactly once, and
\* update returns no follow-up message for any message or for an absent one.
C9_SingleConsumption ==
    pc \in {"tick", "mark"} =>
        /\ updates = (IF msg = Absent THEN 0 ELSE 1)
        /\ (pc = "mark" /\ tickRes.ok => tickRes.sz = updates)
        /\ \A m \in Msg \cup {Absent} :
              Update(quit, View(mounted, focus, focusAttr), m).ret = Absent

C9_Witness == pc = "mark" /\ msg = AlfaBlur /\ updates = 1 /\ tickRes = Ok(1)

\* The decimal numeral of n, at least two digits wide.
TwoDigits(n) == IF n < 10 THEN "0" \o ToString(n) ELSE ToString(n)

\* n is the percent of the payload p / PDen truncated toward zero.
TruncatedPercent(n, p) == n * PDen <= 100 * p /\ 100 * p < (n + 1) * PDen

\* C10 as stated: a gauge that handles Loaded(p) gets as label the truncated
\* integer percent of p followed by '%', and p as value.
C10_LabelIsPercent ==
    [][pc = "tick" /\ ev'.kind = "User" =>
          /\ \E n \in 0 .. 100 :
                TruncatedPercent(n, ev'.prog) /\ label'[focus] = ToString(n) \o "%"
          /\ value'[focus] = ev'.prog]_vars

\* C10 amended: the label is the truncated integer percent of p written with
\* at least two digits (zero-padded) followed by '%', and the value is p.
C10_LabelIsPaddedPercent ==
    [][pc = "tick" /\ ev'.kind = "User" =>
          /\ \E n \in 0 .. 100 :
                TruncatedPercent(n, ev'.prog) /\ label'[focus] = TwoDigits(n) \o "%"
          /\ value'[focus] = ev'.prog]_vars

\* Loaded(1/8), 12.5 percent, gave the label "12%".
C10_Witness ==
    /\ pc = "mark" /\ ev.kind = "User" /\ 8 * ev.prog = PDen
    /\ label[focus] = "12%" /\ value[focus] = ev.prog

\* C11: when TerminalBridge::new fails the process aborts before the loop:
\* no component is mounted, no iteration is entered, no tick, update or render
\* happens, and the aborted process takes no further step.
C11_SetupFailureFatal ==
    /\ [](terminal.bridge = "err" =>
            /\ pc = "aborted"
            /\ iter = 0 /\ mounted = {} /\ focus = NoFocus
            /\ tickRes = Err /\ updates = 0 /\ ~Rendered
            /\ ~terminal.raw /\ ~terminal.alt)
    /\ [][terminal.bridge = "err" => UNCHANGED vars]_vars

C11_Witness == terminal.bridge = "err" /\ pc = "aborted" /\ iter = 0

\* A frame of three regions in layout order: Alfa, Beta, a spacer of one row.
ThreeRegions(alfaLen, betaLen) ==
    /\ Len(frame') = 3
    /\ frame'[1] = [widget |-> Alfa, height |-> alfaLen]
    /\ frame'[2] = [widget |-> Beta, height |-> betaLen]
    /\ frame'[3] = [widget |-> "none", height |-> 1]

\* C12 as stated: a pending redraw gives one render of Alfa, Beta and the
\* spacer, in this order, with region heights that are the same in every
\* render, and the redraw flag is false when the iteration ends.
C12_RenderFixedLayout ==
    [][pc = "redraw" =>
          /\ ~redraw'
          /\ (redraw => Rendered' /\ ThreeRegions(3, 3))
          /\ (~redraw => UNCHANGED <<drawRes, frame>>)]_vars

\* C12 amended: as stated, but the heights are fixed only in progress_bar
\* (3, 3, 1); in select a component's region has 3 rows while its state is
\* State::One (its list is closed) and 8 rows otherwise.
C12_RenderLayout ==
    [][pc = "redraw" =>
          /\ ~redraw'
          /\ (redraw =>
                /\ Rendered'
                /\ IF example = "progress_bar"
                   THEN ThreeRegions(3, 3)
                   ELSE ThreeRegions(IF tabOpen[Alfa] THEN 8 ELSE 3,
                                     IF tabOpen[Beta] THEN 8 ELSE 3))
          /\ (~redraw => UNCHANGED <<drawRes, frame>>)]_vars

\* select rendered with the first list open: 8 rows, then 3, then the spacer.
C12_Witness ==
    /\ pc = "loop" /\ example = "select" /\ Rendered /\ ~redraw
    /\ tabOpen[Alfa] /\ ~tabOpen[Beta]
    /\ frame[1].height = 8 /\ frame[2].height = 3 /\ frame[3].height = 1

\* C13: both identifiers are mounted in every state from the activation on
\* and nothing unmounts one, so no assert! of main or update fails: the only
\* abort is the failed terminal acquisition.
C13_AssertsNeverFail ==
    /\ [](pc \in AfterActivation => mounted = Id)
    /\ [][(pc \in AfterActivation) => UNCHANGED mounted]_vars
    /\ [](pc = "aborted" => terminal.bridge = "err")

\* update's assert on view.active(Alfa) passed.
C13_Witness ==
    /\ pc = "mark" /\ msg = BetaBlur /\ updates = 1
    /\ mounted = Id /\ focus = Alfa /\ terminal.bridge = "ok"

\* C14: an event other than Tab and Esc that reaches the focused component
\* yields Msg::None: quit and the focus stay as they were, the tick counts one
\* processed message and the iteration renders; update on Msg::None or on an
\* absent message changes neither quit nor the view.
C14_OtherEventsOnlyRedraw ==
    /\ [][/\ pc = "tick"
          /\ ev'.kind \in {"Keyboard", "User"}
          /\ ev'.code \notin {"Tab", "Esc"}
          => /\ msg' = MsgNone
             /\ tickRes' = Ok(1)
             /\ UNCHANGED <<quit, focus, focusAttr>>
             /\ pc' = "mark"]_vars
    /\ [][pc = "mark" /\ msg = MsgNone => redraw' /\ ~quit']_vars
    /\ [][pc = "redraw" /\ msg = MsgNone => Rendered' /\ pc' = "loop"]_vars
    /\ [](pc \in AfterActivation =>
            \A m \in {MsgNone, Absent} :
               LET r == Update(quit, View(mounted, focus, focusAttr), m)
               IN r.quit = quit /\ r.view = View(mounted, focus, focusAttr)
                  /\ r.ret = Absent /\ ~r.panic)

\* Enter in a later iteration of select: Msg::None, a redraw pending.
C14_Witness ==
    /\ pc = "redraw" /\ example = "select" /\ ev = Keyboard("Enter")
    /\ msg = MsgNone /\ redraw /\ ~quit /\ iter = 2

\* The percent label of a gauge value as the gauges start with it: the
\* truncated integer percent followed by '%', "0%" for 0.0.
PercentLabel(v) == ToString((100 * v) \div PDen) \o "%"

\* C15: a Loaded event changes only the value and label of the gauge that
\* handles it (the other gauge, the focus and quit stay as they were), and in
\* every state each gauge's label is the percent label of its value, from
\* value 0.0 with label "0%" on.
C15_LabelFollowsValue ==
    /\ [][pc = "tick" /\ ev'.kind = "User" =>
            /\ \A i \in Id \ {focus} : value'[i] = value[i] /\ label'[i] = label[i]
            /\ UNCHANGED <<quit, focus, focusAttr>>]_vars
    /\ [](example = "progress_bar" =>
            \A i \in Id : label[i] = PercentLabel(value[i]))

====
